---- MODULE Spec2Model ----
(***************************************************************************)
(* Model of the DynamicRAG class of src/src/dynamic-rag.ts: the in-memory  *)
(* document collection, the metadata file, the per-document text files,    *)
(* the export snapshots and the derived vector index with its query        *)
(* engine.  Every public operation is one action; the failures of the      *)
(* file system and of the embedding / LLM backend are inputs of the        *)
(* actions.                                                                *)
(***************************************************************************)
EXTENDS Integers, Sequences, FiniteSets, TLC

\* ---------------------------------------------------------------- bounds
\* number of addDocument calls of one session (ids handed out by uuidv4)
MaxIds == 2
\* last value of the clock (Date.now())
MaxTime == 1
\* number of file-system / backend failures of one session
MaxFaults == 1
\* number of source nodes an answer of the query engine carries
MaxSources == 1

\* ------------------------------------------------------- program constants
\* id of the document an earlier session left in the metadata file
OldId1 == 101

\* ------------------------------------------------------------- documents
\* new Date(): a Date object holding a time value
DateObj(t) == [kind |-> "Date", t |-> t]

\* what JSON.stringify writes for a Date and JSON.parse reads back:
\* the ISO-8601 string of the time value
IsoString(t) == [kind |-> "string", t |-> t]

\* JSON.parse(JSON.stringify(date)): a Date comes back as its ISO string,
\* a string comes back as the same string
JSONDate(d) == IsoString(d.t)

\* typeof d.toISOString === 'function'
HasToISOString(d) == d.kind = "Date"

\* tags.join(', ')
RECURSIVE JoinTags(_)
JoinTags(tags) ==
  IF Len(tags) = 0 THEN ""
  ELSE IF Len(tags) = 1 THEN tags[1]
  ELSE tags[1] \o ", " \o JoinTags(Tail(tags))

\* the inputs of addDocument: content and metadata (tags / category /
\* author may be left out, written "undefined" / "" / "" here)
Undefined == <<"undefined">>
AddInputs ==
  { [content |-> "notes on career growth", title |-> "Notes",
     source |-> "manual-input", tags |-> <<"a", "b">>, category |-> "",
     author |-> "Ana"] }

\* the UserDocument addDocument builds (lines 148-159)
NewDocument(id, in, t) ==
  [ id |-> id,
    title |-> in.title,
    content |-> in.content,
    source |-> in.source,
    metadata |-> [ addedDate |-> DateObj(t),
                   tags |-> IF in.tags = Undefined THEN <<>> ELSE in.tags,
                   category |-> IF in.category = "" THEN "general"
                                ELSE in.category,
                   author |-> in.author ] ]

\* JSON.parse(JSON.stringify(doc))
JSONDoc(doc) ==
  [doc EXCEPT !.metadata.addedDate = JSONDate(doc.metadata.addedDate)]

\* JSON.parse(JSON.stringify(docs)) of a document array
JSONDocs(docs) == [i \in 1..Len(docs) |-> JSONDoc(docs[i])]

\* a document as an earlier session saved it
OldDoc(id) ==
  JSONDoc(NewDocument(id, [content |-> "notes of an earlier session",
                           title |-> "Earlier", source |-> "manual-input",
                           tags |-> Undefined, category |-> "general",
                           author |-> ""], 0))

IdsOf(docs) == {docs[i].id : i \in 1..Len(docs)}

\* ------------------------------------------------------------ the index
\* a llama document that leaves the author out
LlamaDocument_NoAuthor(doc) ==
  [ text |-> doc.content,
    metadata |-> [ id |-> doc.id,
                   title |-> doc.title,
                   source |-> doc.source,
                   category |-> doc.metadata.category,
                   tags |-> JoinTags(doc.metadata.tags),
                   addedDate |-> IsoString(doc.metadata.addedDate.t),
                   author |-> "" ] ]

\* new Document({text, metadata}) of updateVectorStore / rebuildVectorStore
\* (lines 197-208, 231-241); author: doc.metadata.author || ''
LlamaDocument(doc) ==
  [ text |-> doc.content,
    metadata |-> [ id |-> doc.id,
                   title |-> doc.title,
                   source |-> doc.source,
                   category |-> doc.metadata.category,
                   tags |-> JoinTags(doc.metadata.tags),
                   addedDate |-> IsoString(doc.metadata.addedDate.t),
                   author |-> doc.metadata.author ] ]

\* doc.metadata.addedDate.toISOString() throws a TypeError on a string
MapThrows(docs) ==
  \E i \in 1..Len(docs) : ~HasToISOString(docs[i].metadata.addedDate)

LlamaDocuments(docs) == [i \in 1..Len(docs) |-> LlamaDocument(docs[i])]

\* this.vectorIndex / this.queryEngine = null
NoIndex == [exists |-> FALSE, nodes |-> <<>>]

\* VectorStoreIndex.fromDocuments(list)
FromDocuments(list) == [exists |-> TRUE, nodes |-> list]

\* index.insert(doc) that leaves the document out
Insert_Dropped(index, ldoc) == [exists |-> TRUE, nodes |-> index.nodes]

\* index.insert(doc)
Insert(index, ldoc) == [exists |-> TRUE, nodes |-> Append(index.nodes, ldoc)]

\* index.asQueryEngine(): the engine answers from the index it was made of
AsQueryEngine(index) == index

IndexIds(index) == {index.nodes[i].metadata.id : i \in 1..Len(index.nodes)}

\* ------------------------------------------------------------ the files
NoFile == [exists |-> FALSE, docs |-> <<>>]

\* a write that leaves the documents out of the file
FileOf_Empty(docs) == [exists |-> TRUE, docs |-> <<>>]

\* the file fs.writeFile(path, JSON.stringify(docs)) leaves, as read back
FileOf(docs) == [exists |-> TRUE, docs |-> JSONDocs(docs)]

\* ---------------------------------------------------------------- state
VARIABLES
  documents,      \* this.documents
  vectorIndex,    \* this.vectorIndex
  queryEngine,    \* this.queryEngine (the index it answers from)
  isInitialized,  \* this.isInitialized
  autoSave,       \* this.config.autoSave
  nextId,         \* the next id uuidv4() hands out
  now,            \* Date.now()
  dataDirExists,  \* config.dataDirectory exists on disk
  metaFile,       \* <dataDirectory>/<documentsFile>
  docFiles,       \* the ids with a <id>.txt file
  exports,        \* the export-<timestamp>.json files, by timestamp
  lastOp,         \* the last call: its arguments, outcome and call counts
  rebuildFailed,  \* a rebuild inside deleteDocument / importData has thrown
  initIndexFailed,\* initialize() threw in initializeVectorStore, none
                  \* succeeded since
  cleanSinceInit, \* no add / delete / import has thrown since initialize()
  faults,         \* the file-system / backend failures so far
  calls,          \* the addDocument and deleteDocument calls in flight at
                  \* an await: their positions and locals
  session         \* the interactive front end driving the instance: where
                  \* its command loop stands

vars == <<documents, vectorIndex, queryEngine, isInitialized, autoSave,
          nextId, now, dataDirExists, metaFile, docFiles, exports, lastOp,
          rebuildFailed, initIndexFailed, cleanSinceInit, faults, calls,
          session>>

\* no interactive front end has been started
NoSession ==
  [ kind |-> "none", at |-> "off", command |-> "none", reported |-> FALSE,
    afterError |-> FALSE, lines |-> {} ]

\* no call is suspended at an await
NoCalls ==
  [ add |-> "idle", del |-> "idle", addId |-> 0, delId |-> 0,
    document |-> <<>>, target |-> "none", llamaDocuments |-> <<>>,
    addJSON |-> NoFile, delJSON |-> NoFile ]

\* the record of a call; every call fills in the fields it has
NoOp ==
  [ op |-> "none", ok |-> TRUE, fail |-> "none", id |-> 0,
    path |-> [kind |-> "none", t |-> 0],
    retBool |-> FALSE, sources |-> {}, total |-> -1, shortCircuit |-> FALSE,
    rebuilds |-> 0, inserts |-> 0, engineCalls |-> 0, saves |-> 0,
    preLen |-> 0, dirExisted |-> FALSE, unlinkFailed |-> FALSE,
    noop |-> FALSE,
    options |-> [category |-> "", tags |-> <<>>,
                 limit |-> [given |-> FALSE, n |-> 0]],
    listed |-> <<>>,
    stats |-> [totalDocuments |-> 0, categories |-> <<>>, tags |-> <<>>,
               sources |-> <<>>, recentDocuments |-> 0] ]

\* the disk an earlier session may have left behind
InitialDisks ==
  { [dir |-> FALSE, file |-> NoFile, txt |-> {}],
    [dir |-> TRUE,  file |-> NoFile, txt |-> {}],
    [dir |-> TRUE,  file |-> [exists |-> TRUE, docs |-> <<>>], txt |-> {}],
    [dir |-> TRUE,  file |-> [exists |-> TRUE, docs |-> <<OldDoc(OldId1)>>],
     txt |-> {OldId1}] }

\* the state after the constructor (lines 36-58)
Init ==
  /\ documents = <<>>
  /\ vectorIndex = NoIndex
  /\ queryEngine = NoIndex
  /\ isInitialized = FALSE
  /\ autoSave \in BOOLEAN
  /\ nextId = 1
  /\ now = 0
  /\ \E d \in InitialDisks :
        /\ dataDirExists = d.dir
        /\ metaFile = d.file
        /\ docFiles = d.txt
  /\ exports = [t \in 0..MaxTime |-> NoFile]
  /\ lastOp = NoOp
  /\ rebuildFailed = FALSE
  /\ initIndexFailed = FALSE
  /\ cleanSinceInit = FALSE
  /\ faults = 0
  /\ calls = NoCalls
  /\ session = NoSession

\* a call in which n injected failures happen
Fault(n) ==
  /\ faults + n <= MaxFaults
  /\ faults' = faults + n

\* time passes
Tick ==
  /\ now < MaxTime
  /\ now' = now + 1
  /\ UNCHANGED <<session, calls,
                 documents, vectorIndex, queryEngine, isInitialized,
                 autoSave, nextId, dataDirExists, metaFile, docFiles,
                 exports, lastOp, rebuildFailed, initIndexFailed,
                 cleanSinceInit, faults>>

\* ----------------------------------------------------------- initialize
\* loadExistingData (lines 104-115): the parsed file, or [] when reading
\* or parsing throws
LoadExistingData(file) == IF file.exists THEN file.docs ELSE <<>>

\* rebuildVectorStore (lines 228-249) throws: the map over the documents
\* throws, or VectorStoreIndex.fromDocuments does
RebuildThrows(docs, backendFails) == MapThrows(docs) \/ backendFails

\* the index rebuildVectorStore builds when it does not throw
RebuiltIndex(docs) == FromDocuments(LlamaDocuments(docs))

\* an initialize() without the early return
AlreadyInitialized_Never(flag) == FALSE

\* if (this.isInitialized) return; (line 62)
AlreadyInitialized(flag) == flag

\* initialize() (lines 61-81) with setupLlamaIndex, createDirectories,
\* loadExistingData and initializeVectorStore;
\* fail: "setup" (no GOOGLE_API_KEY), "emptyIndex" (fromDocuments([])
\* throws), "rebuild" (fromDocuments(list) throws)
Initialize(fail) ==
  LET rec == [NoOp EXCEPT !.op = "initialize", !.fail = fail,
                          !.dirExisted = dataDirExists]
      loaded == LoadExistingData(metaFile)
      needRebuild == Len(loaded) > 0
      rebuildThrows == needRebuild /\ RebuildThrows(loaded, fail = "rebuild")
      index == IF needRebuild THEN RebuiltIndex(loaded)
               ELSE FromDocuments(<<>>)
  IN
  /\ Fault(IF fail \in {"setup", "emptyIndex", "rebuild"} THEN 1 ELSE 0)
  /\ fail = "rebuild" => ~isInitialized /\ needRebuild
  /\ fail \in {"setup", "emptyIndex"} => ~isInitialized
  /\ IF AlreadyInitialized(isInitialized)
       THEN /\ lastOp' = [rec EXCEPT !.noop = TRUE]
            /\ UNCHANGED <<documents, vectorIndex, queryEngine,
                           isInitialized, dataDirExists, initIndexFailed,
                           cleanSinceInit>>
       ELSE IF fail = "setup"
       THEN /\ lastOp' = [rec EXCEPT !.ok = FALSE]
            /\ UNCHANGED <<documents, vectorIndex, queryEngine,
                           isInitialized, dataDirExists, initIndexFailed,
                           cleanSinceInit>>
       ELSE /\ dataDirExists' = TRUE
            /\ documents' = loaded
            /\ IF fail = "emptyIndex"
                 THEN /\ lastOp' = [rec EXCEPT !.ok = FALSE]
                      /\ initIndexFailed' = TRUE
                      /\ UNCHANGED <<vectorIndex, queryEngine,
                                     isInitialized, cleanSinceInit>>
                 ELSE IF rebuildThrows
                 THEN /\ vectorIndex' = FromDocuments(<<>>)
                      /\ lastOp' = [rec EXCEPT !.ok = FALSE]
                      /\ initIndexFailed' = TRUE
                      /\ UNCHANGED <<queryEngine, isInitialized,
                                     cleanSinceInit>>
                 ELSE /\ vectorIndex' = index
                      /\ queryEngine' = AsQueryEngine(index)
                      /\ isInitialized' = TRUE
                      /\ initIndexFailed' = FALSE
                      /\ cleanSinceInit' = TRUE
                      /\ lastOp' = [rec EXCEPT
                                      !.rebuilds = IF needRebuild THEN 1
                                                   ELSE 0]
  /\ UNCHANGED <<session, calls,
                 autoSave, nextId, now, metaFile, docFiles, exports,
                 rebuildFailed>>

\* ---------------------------------------------------------- addDocument
\* a save that writes the newest document only
SaveDocuments_LastOnly(docs) ==
  FileOf(IF docs = <<>> THEN <<>> ELSE <<docs[Len(docs)]>>)

\* saveDocuments (lines 117-120): the metadata file after the write
SaveDocuments(docs) == FileOf(docs)

\* addDocument (lines 141-176) with saveDocumentToFile and
\* updateVectorStore;
\* fail: "file" (<id>.txt write throws), "insert" (index.insert throws),
\* "save" (metadata write throws)
AddDocument(in, fail) ==
  LET document == NewDocument(nextId, in, now)
      fileOk == dataDirExists /\ fail # "file"
      hasIndex == vectorIndex.exists
      inserted == fileOk /\ hasIndex /\ fail # "insert"
      reachedSave == fileOk /\ (~hasIndex \/ fail # "insert")
      saved == reachedSave /\ autoSave /\ fail # "save"
      ok == reachedSave /\ (autoSave => fail # "save")
      index == Insert(vectorIndex, LlamaDocument(document))
  IN
  /\ Fault(IF fail = "none" THEN 0 ELSE 1)
  /\ nextId <= MaxIds
  /\ fail = "file" => dataDirExists
  /\ fail = "insert" => fileOk /\ hasIndex
  /\ fail = "save" => reachedSave /\ autoSave
  /\ documents' = Append(documents, document)
  /\ nextId' = nextId + 1
  /\ docFiles' = IF fileOk THEN docFiles \cup {document.id} ELSE docFiles
  /\ vectorIndex' = IF inserted THEN index ELSE vectorIndex
  /\ queryEngine' = IF inserted THEN AsQueryEngine(index) ELSE queryEngine
  /\ metaFile' = IF saved THEN SaveDocuments(documents') ELSE metaFile
  /\ lastOp' = [NoOp EXCEPT !.op = "add", !.ok = ok, !.fail = fail,
                            !.id = document.id,
                            !.inserts = IF inserted THEN 1 ELSE 0,
                            !.saves = IF saved THEN 1 ELSE 0]
  /\ cleanSinceInit' = (cleanSinceInit /\ ok)
  /\ UNCHANGED <<session, calls,
                 isInitialized, autoSave, now, dataDirExists, exports,
                 rebuildFailed, initIndexFailed>>

\* -------------------------------------------------------- listDocuments
\* options.limit: given or left out (undefined)
NoLimit == [given |-> FALSE, n |-> 0]
Limit(n) == [given |-> TRUE, n |-> n]

\* if (options.limit) (line 360): undefined and 0 are falsy
Truthy(limit) == limit.given /\ limit.n # 0

\* a tag filter that wants every given tag on the document
ListDocuments_AllTags(docs, category, tags, limit) ==
  LET InCategory(doc) == doc.metadata.category = category
      HasTags(doc) ==
        \A i \in 1..Len(tags) :
          \E j \in 1..Len(doc.metadata.tags) : doc.metadata.tags[j] = tags[i]
      byCategory == IF category # "" THEN SelectSeq(docs, InCategory)
                    ELSE docs
      byTags == IF Len(tags) > 0 THEN SelectSeq(byCategory, HasTags)
                ELSE byCategory
      end == IF limit.n < Len(byTags) THEN limit.n ELSE Len(byTags)
  IN IF Truthy(limit) THEN SubSeq(byTags, 1, end) ELSE byTags

\* listDocuments (lines 343-365); category "" and tags <<>> stand for an
\* option left out (both are falsy / empty in the tests of lines 346, 352)
ListDocuments(docs, category, tags, limit) ==
  LET InCategory(doc) == doc.metadata.category = category
      HasTag(doc) ==
        \E i \in 1..Len(tags) :
          \E j \in 1..Len(doc.metadata.tags) : doc.metadata.tags[j] = tags[i]
      byCategory == IF category # "" THEN SelectSeq(docs, InCategory)
                    ELSE docs
      byTags == IF Len(tags) > 0 THEN SelectSeq(byCategory, HasTag)
                ELSE byCategory
      end == IF limit.n < 0 THEN Len(byTags) + limit.n
             ELSE IF limit.n < Len(byTags) THEN limit.n ELSE Len(byTags)
  IN IF Truthy(limit) THEN SubSeq(byTags, 1, end) ELSE byTags

\* ------------------------------------------------------- deleteDocument
\* a findIndex whose "none" is taken for a position
FindIndex_Zero(docs, id) ==
  IF \E i \in 1..Len(docs) : docs[i].id = id
  THEN CHOOSE i \in 1..Len(docs) : docs[i].id = id
  ELSE 0

\* documents.findIndex(doc => doc.id === id): -1 when there is none
\* (positions count from 1 here)
FindIndex(docs, id) ==
  IF \E i \in 1..Len(docs) : docs[i].id = id
  THEN CHOOSE i \in 1..Len(docs) :
         /\ docs[i].id = id
         /\ \A j \in 1..(i - 1) : docs[j].id # id
  ELSE -1

\* documents.splice(index, 0): nothing is removed
Splice_Kept(docs, index) == docs

\* documents.splice(index, 1)
Splice(docs, index) ==
  [i \in 1..(Len(docs) - 1) |-> IF i < index THEN docs[i] ELSE docs[i + 1]]

\* the ids a call may name
AllIds == (1..MaxIds) \cup {OldId1}

\* deleteDocument (lines 368-393);
\* unlinkFails: fs.unlink throws; fail: "rebuild" (fromDocuments throws),
\* "save" (metadata write throws)
DeleteDocument(id, unlinkFails, fail) ==
  LET index == FindIndex(documents, id)
      found == index # -1
      rest == Splice(documents, index)
      unlinked == dataDirExists /\ id \in docFiles /\ ~unlinkFails
      rebuildThrows == RebuildThrows(rest, fail = "rebuild")
      saved == ~rebuildThrows /\ autoSave /\ dataDirExists /\ fail # "save"
      ok == ~rebuildThrows /\ (autoSave => saved)
      rec == [NoOp EXCEPT !.op = "delete", !.id = id, !.fail = fail,
                          !.unlinkFailed = ~unlinked]
  IN
  /\ Fault((IF fail = "none" THEN 0 ELSE 1) + (IF unlinkFails THEN 1 ELSE 0))
  /\ fail = "save" => autoSave /\ dataDirExists /\ ~rebuildThrows
  /\ fail = "rebuild" => ~MapThrows(rest)
  /\ IF ~found
       THEN /\ fail = "none" /\ ~unlinkFails
            /\ lastOp' = [rec EXCEPT !.retBool = FALSE,
                                     !.unlinkFailed = FALSE]
            /\ UNCHANGED <<documents, docFiles, vectorIndex, queryEngine,
                           metaFile, rebuildFailed, cleanSinceInit>>
       ELSE /\ documents' = rest
            /\ docFiles' = IF unlinked THEN docFiles \ {id} ELSE docFiles
            /\ vectorIndex' = IF rebuildThrows THEN vectorIndex
                              ELSE RebuiltIndex(rest)
            /\ queryEngine' = IF rebuildThrows THEN queryEngine
                              ELSE AsQueryEngine(RebuiltIndex(rest))
            /\ metaFile' = IF saved THEN SaveDocuments(rest) ELSE metaFile
            /\ rebuildFailed' = (rebuildFailed \/ rebuildThrows)
            /\ cleanSinceInit' = (cleanSinceInit /\ ok)
            /\ lastOp' = [rec EXCEPT !.ok = ok, !.retBool = ok,
                              !.rebuilds = IF rebuildThrows THEN 0 ELSE 1,
                              !.saves = IF saved THEN 1 ELSE 0]
  /\ UNCHANGED <<session, calls,
                 isInitialized, autoSave, nextId, now, dataDirExists,
                 exports, initIndexFailed>>

\* ---------------------------------------------------------------- query
\* the sources of an answer: source nodes of the index the engine queries
SourceSets(engine) ==
  { srcs \in SUBSET IndexIds(engine) : Cardinality(srcs) <= MaxSources }

\* the empty-store test left out
NoDocuments_Never(docs) == FALSE

\* this.documents.length === 0 (line 266)
NoDocuments(docs) == Len(docs) = 0

\* a catch block that asks the engine once more
EngineCalls_Retry(threw) == IF threw THEN 2 ELSE 1

\* the calls of this.queryEngine.query in the try block (lines 274-299):
\* one, and the catch block logs and rethrows
EngineCalls(threw) == 1

\* query (lines 252-300); fail: "engine" (queryEngine.query throws)
Query(includeMetadata, fail) ==
  LET rec == [NoOp EXCEPT !.op = "query", !.fail = fail]
  IN
  /\ Fault(IF fail = "none" THEN 0 ELSE 1)
  /\ fail = "engine" => queryEngine.exists /\ ~NoDocuments(documents)
  /\ IF ~queryEngine.exists
       THEN lastOp' = [rec EXCEPT !.ok = FALSE, !.fail = "notInitialized"]
       ELSE IF NoDocuments(documents)
       THEN lastOp' = [rec EXCEPT !.shortCircuit = TRUE, !.total = 0]
       ELSE IF fail = "engine"
       THEN lastOp' = [rec EXCEPT !.ok = FALSE,
                                  !.engineCalls = EngineCalls(TRUE)]
       ELSE \E srcs \in SourceSets(queryEngine) :
              lastOp' = [rec EXCEPT !.engineCalls = EngineCalls(FALSE),
                                    !.sources = srcs,
                           !.total = IF includeMetadata
                                     THEN Len(documents) ELSE -1]
  /\ UNCHANGED <<session, calls,
                 documents, vectorIndex, queryEngine, isInitialized,
                 autoSave, nextId, now, dataDirExists, metaFile, docFiles,
                 exports, rebuildFailed, initIndexFailed, cleanSinceInit>>

\* ----------------------------------------------------- export / import
\* exportData (lines 684-695); fail: "write" (the snapshot write throws)
ExportData(fail) ==
  LET ok == dataDirExists /\ fail # "write"
  IN
  /\ Fault(IF fail = "none" THEN 0 ELSE 1)
  /\ fail = "write" => dataDirExists
  /\ exports' = IF ok THEN [exports EXCEPT ![now] = FileOf(documents)]
                ELSE exports
  /\ lastOp' = [NoOp EXCEPT !.op = "export", !.ok = ok, !.fail = fail,
                            !.path = [kind |-> "export", t |-> now]]
  /\ UNCHANGED <<session, calls,
                 documents, vectorIndex, queryEngine, isInitialized,
                 autoSave, nextId, now, dataDirExists, metaFile, docFiles,
                 rebuildFailed, initIndexFailed, cleanSinceInit>>

\* the files importData may be pointed at: the path of a snapshot of
\* exportData (written or not), a JSON file without a documents field, a
\* JSON file whose documents field is not an array
ImportPaths ==
  { [kind |-> "export", t |-> t] : t \in 0..MaxTime }
  \cup { [kind |-> k, t |-> 0] : k \in {"nodocs", "notarray"} }

\* importData takes any path: a JSON file that was not written by
\* exportData, whose documents array lists one document twice
ForeignPaths == { [kind |-> "foreign", t |-> 0] }

\* the documents array of that file
ForeignDocuments == <<OldDoc(OldId1), OldDoc(OldId1)>>

\* JSON.parse(await fs.readFile(filePath)) throws: there is no such file
ReadThrows(path) == path.kind = "export" /\ ~exports[path.t].exists

\* data.documents of the parsed file
SnapshotDocuments(path) ==
  CASE path.kind = "export" -> exports[path.t].docs
    [] path.kind = "foreign" -> ForeignDocuments
    [] OTHER -> <<>>

\* the shape test left out
ValidSnapshot_Any(path) == TRUE

\* data.documents && Array.isArray(data.documents) (line 702)
ValidSnapshot(path) == path.kind \in {"export", "foreign"}

\* the snapshot appended to the collection instead of replacing it
ImportedDocuments_Merged(docs, snapshot) == docs \o snapshot

\* this.documents = data.documents (line 703)
ImportedDocuments(docs, snapshot) == snapshot

\* importData (lines 698-714); fail: "save" (metadata write throws),
\* "rebuild" (fromDocuments throws)
ImportData(path, fail) ==
  LET snapshot == SnapshotDocuments(path)
      valid == ~ReadThrows(path) /\ ValidSnapshot(path)
      docs == ImportedDocuments(documents, snapshot)
      saved == valid /\ dataDirExists /\ fail # "save"
      rebuildThrows == RebuildThrows(docs, fail = "rebuild")
      ok == saved /\ ~rebuildThrows
      rec == [NoOp EXCEPT !.op = "import", !.path = path, !.fail = fail,
                          !.preLen = Len(documents)]
  IN
  /\ Fault(IF fail = "none" THEN 0 ELSE 1)
  /\ fail # "none" => valid /\ dataDirExists
  /\ fail = "rebuild" => ~MapThrows(docs)
  /\ IF ~valid
       THEN /\ lastOp' = [rec EXCEPT !.ok = FALSE,
                             !.fail = IF ReadThrows(path) THEN "read"
                                      ELSE "format"]
            /\ UNCHANGED <<documents, metaFile, vectorIndex, queryEngine,
                           rebuildFailed>>
       ELSE /\ documents' = docs
            /\ metaFile' = IF saved THEN SaveDocuments(docs) ELSE metaFile
            /\ vectorIndex' = IF ok THEN RebuiltIndex(docs) ELSE vectorIndex
            /\ queryEngine' = IF ok THEN AsQueryEngine(RebuiltIndex(docs))
                              ELSE queryEngine
            /\ rebuildFailed' = (rebuildFailed \/ (saved /\ rebuildThrows))
            /\ lastOp' = [rec EXCEPT !.ok = ok,
                              !.saves = IF saved THEN 1 ELSE 0,
                              !.rebuilds = IF ok THEN 1 ELSE 0]
  /\ cleanSinceInit' = (cleanSinceInit /\ valid /\ ok)
  /\ UNCHANGED <<session, calls,
                 isInitialized, autoSave, nextId, now, dataDirExists,
                 docFiles, exports, initIndexFailed>>

\* ------------------------------------------------------- specification
Next ==
  \/ \E fail \in {"none", "setup", "emptyIndex", "rebuild"} :
       Initialize(fail)
  \/ \E in \in AddInputs, fail \in {"none", "file", "insert", "save"} :
       AddDocument(in, fail)
  \/ \E id \in AllIds, unlinkFails \in BOOLEAN,
        fail \in {"none", "rebuild", "save"} :
       DeleteDocument(id, unlinkFails, fail)
  \/ \E includeMetadata \in BOOLEAN, fail \in {"none", "engine"} :
       Query(includeMetadata, fail)
  \/ \E fail \in {"none", "write"} : ExportData(fail)
  \/ \E path \in ImportPaths, fail \in {"none", "save", "rebuild"} :
       ImportData(path, fail)

\* the session with the clock standing still
Spec == Init /\ [][Next]_vars

\* the session with the clock running
NextClock == Next \/ Tick
SpecClock == Init /\ [][NextClock]_vars

\* ================================================================ claims

\* C1: on an initialized instance on which every addDocument,
\* deleteDocument and importData since initialize() has succeeded, the ids
\* held in the index are the ids of the documents of the collection.
C1_IndexMatchesStore ==
  (isInitialized /\ cleanSinceInit) =>
    /\ vectorIndex.exists
    /\ IndexIds(vectorIndex) = IdsOf(documents)
    /\ Len(vectorIndex.nodes) = Len(documents)

\* C1 witness: a successful delete that leaves another document behind
C1_Witness ==
  /\ isInitialized /\ cleanSinceInit
  /\ lastOp.op = "delete" /\ lastOp.retBool
  /\ Len(documents) >= 1

\* C2 (as claimed): initialize() of a fresh instance whose metadata file
\* holds N >= 1 saved documents succeeds, marks the instance initialized
\* and leaves an index of exactly those documents, on an existing data
\* directory.
C2_InitializeLoadsSavedDocuments ==
  ( /\ lastOp.op = "initialize" /\ ~lastOp.noop
    /\ lastOp.fail = "none"
    /\ metaFile.exists /\ Len(metaFile.docs) >= 1 ) =>
    /\ lastOp.ok
    /\ isInitialized
    /\ dataDirExists
    /\ IdsOf(documents) = IdsOf(metaFile.docs)
    /\ vectorIndex.exists
    /\ IndexIds(vectorIndex) = IdsOf(metaFile.docs)
    /\ Len(vectorIndex.nodes) = Len(metaFile.docs)

\* C3 (as claimed): importData of the file a successful exportData has
\* just returned succeeds and leaves the collection as it was before the
\* export, document by document, addedDate included.
C3_ExportImportRoundTrip ==
  [][ ( /\ isInitialized
        /\ lastOp.op = "export" /\ lastOp.ok
        /\ lastOp'.op = "import" /\ lastOp'.path = lastOp.path
        /\ lastOp'.fail = "none" ) =>
      ( lastOp'.ok /\ documents' = documents ) ]_vars

\* C4: a successful importData of a snapshot with documents S leaves the
\* collection equal to S, the metadata file holding S, and has run one
\* rebuild after which the index holds exactly the documents of S.
C4_ImportReplaces ==
  (lastOp.op = "import" /\ lastOp.ok) =>
    /\ documents = SnapshotDocuments(lastOp.path)
    /\ metaFile = FileOf(SnapshotDocuments(lastOp.path))
    /\ lastOp.saves = 1
    /\ lastOp.rebuilds = 1
    /\ vectorIndex.exists
    /\ IndexIds(vectorIndex) = IdsOf(SnapshotDocuments(lastOp.path))
    /\ Len(vectorIndex.nodes) = Len(SnapshotDocuments(lastOp.path))

\* C4 witness: a successful import onto a collection that held documents
C4_Witness ==
  /\ lastOp.op = "import" /\ lastOp.ok
  /\ lastOp.preLen > 0

\* C5 (as claimed): once a rebuild inside deleteDocument or importData has
\* thrown, every later query() fails, and none reaches the query engine of
\* the index that was there before.
C5_QueryFailsAfterFailedRebuild ==
  (rebuildFailed /\ lastOp.op = "query") =>
    (~lastOp.ok /\ lastOp.engineCalls = 0)

\* C6 (as claimed): initialize() that fails in index construction throws
\* and leaves the instance not initialized, and as long as no initialize()
\* has succeeded since, no query is answered from an index that lacks a
\* document of the collection.
C6_NoQueryFromPartialIndex ==
  /\ (lastOp.op = "initialize" /\ initIndexFailed) =>
       (~lastOp.ok /\ ~isInitialized)
  /\ ( /\ initIndexFailed
       /\ lastOp.op = "query" /\ lastOp.ok /\ lastOp.engineCalls = 1 ) =>
       IdsOf(documents) \subseteq IndexIds(queryEngine)

\* C7: initialize() on a data directory that does not exist succeeds (when
\* no backend call fails) with zero documents and creates the directory;
\* every query() on an initialized instance with an empty collection
\* returns the fixed answer, with no sources and totalDocuments = 0,
\* without calling the query engine.
C7_EmptyStoreShortCircuit ==
  /\ ( /\ lastOp.op = "initialize" /\ ~lastOp.dirExisted
       /\ lastOp.fail = "none" ) =>
       ( /\ lastOp.ok /\ isInitialized /\ dataDirExists
         /\ Len(documents) = 0 )
  /\ (lastOp.op = "query" /\ isInitialized /\ Len(documents) = 0) =>
       ( /\ lastOp.ok /\ lastOp.shortCircuit
         /\ lastOp.sources = {} /\ lastOp.total = 0
         /\ lastOp.engineCalls = 0 )

\* C7 witness: the fixed answer given by an initialized instance
C7_Witness ==
  /\ lastOp.op = "query" /\ lastOp.shortCircuit
  /\ isInitialized /\ Len(documents) = 0

\* the ids handed out so far, and the id of the earlier session
Issued(id) == id < nextId \/ id = OldId1

\* id is neither in the collection nor listed nor in the index
Gone(id, docs, index, engine) ==
  /\ id \notin IdsOf(docs)
  /\ id \notin IdsOf(ListDocuments(docs, "", <<>>, NoLimit))
  /\ id \notin IndexIds(index)
  /\ id \notin IndexIds(engine)

\* C8: deleteDocument(id) that finds the id returns true only after exactly
\* one rebuild, whether or not the removal of <id>.txt failed, and then the
\* id is in neither the collection nor the index; no later add, delete or
\* query brings an id that is gone back into the listing or the index.
C8_DeletedStaysDeleted ==
  /\ []( (lastOp.op = "delete" /\ lastOp.retBool) =>
          ( /\ lastOp.rebuilds = 1
            /\ Gone(lastOp.id, documents, vectorIndex, queryEngine) ) )
  /\ [][ lastOp'.op \in {"add", "delete", "query"} =>
          \A id \in AllIds :
            (Issued(id) /\ Gone(id, documents, vectorIndex, queryEngine))
              => Gone(id, documents', vectorIndex', queryEngine') ]_vars

\* C8 witness: a delete that returned true although <id>.txt could not be
\* removed, with another document left
C8_Witness ==
  /\ lastOp.op = "delete" /\ lastOp.retBool /\ lastOp.unlinkFailed
  /\ Len(documents) >= 1

\* C9: deleteDocument(id) with an id that is not in the collection returns
\* false without throwing, rebuilds and writes nothing, and leaves the
\* collection, the metadata file, the per-document files and the index
\* as they were.
C9_DeleteAbsentIsNoOp ==
  [][ (lastOp'.op = "delete" /\ lastOp'.id \notin IdsOf(documents)) =>
      ( /\ lastOp'.ok /\ ~lastOp'.retBool
        /\ lastOp'.rebuilds = 0 /\ lastOp'.saves = 0
        /\ UNCHANGED <<documents, metaFile, docFiles, vectorIndex,
                       queryEngine, exports>> ) ]_vars

\* C9 witness: false returned on a collection and an index that hold
\* documents
C9_Witness ==
  /\ lastOp.op = "delete" /\ lastOp.ok /\ ~lastOp.retBool
  /\ Len(documents) >= 1 /\ Len(vectorIndex.nodes) >= 1

\* C10: importData of a snapshot whose documents field is missing or is
\* not an array throws, saves and rebuilds nothing, and leaves the
\* collection, the metadata file and the index as they were.
C10_MalformedImportRejected ==
  [][ (lastOp'.op = "import" /\ lastOp'.path.kind \in {"nodocs", "notarray"})
      => ( /\ ~lastOp'.ok /\ lastOp'.fail = "format"
           /\ lastOp'.saves = 0 /\ lastOp'.rebuilds = 0
           /\ UNCHANGED <<documents, metaFile, docFiles, vectorIndex,
                          queryEngine, exports>> ) ]_vars

\* C10 witness: a malformed snapshot rejected on a collection and an index
\* that hold documents
C10_Witness ==
  /\ lastOp.op = "import" /\ lastOp.path.kind = "notarray" /\ ~lastOp.ok
  /\ Len(documents) >= 1 /\ Len(vectorIndex.nodes) >= 1

\* ------------------------------------------------------------------ C11

\* the session in which importData is also pointed at the file of another
\* tool; no call fails for an outside reason
NextImport ==
  \/ Initialize("none")
  \/ \E in \in AddInputs : AddDocument(in, "none")
  \/ \E id \in AllIds : DeleteDocument(id, FALSE, "none")
  \/ \E includeMetadata \in BOOLEAN : Query(includeMetadata, "none")
  \/ ExportData("none")
  \/ \E path \in ImportPaths \cup ForeignPaths : ImportData(path, "none")

SpecImport == Init /\ [][NextImport]_vars

\* no two documents of docs share an id
UniqueIds(docs) ==
  \A i, j \in 1..Len(docs) : i # j => docs[i].id # docs[j].id

\* C11 (as claimed): no two documents of the collection share an id, and
\* the id returned by an addDocument was returned by no earlier one.
C11_IdsUnique ==
  /\ [] UniqueIds(documents)
  /\ [][ (lastOp'.op = "add" /\ lastOp'.ok /\ nextId' # nextId)
         => ~Issued(lastOp'.id) ]_vars

\* ------------------------------------------------------------------ C12

\* the characters trim() removes (of those used here)
Whitespace == {" ", "\t", "\n"}

\* String.prototype.trim on a text
RECURSIVE TrimStart(_)
TrimStart(cs) ==
  IF Len(cs) > 0 /\ SubSeq(cs, 1, 1) \in Whitespace
  THEN TrimStart(SubSeq(cs, 2, Len(cs))) ELSE cs

RECURSIVE TrimEnd(_)
TrimEnd(cs) ==
  IF Len(cs) > 0 /\ SubSeq(cs, Len(cs), Len(cs)) \in Whitespace
  THEN TrimEnd(SubSeq(cs, 1, Len(cs) - 1)) ELSE cs

Trim(cs) == TrimEnd(TrimStart(cs))

\* the length floor of ContentValidator.isValidContent
MinContentLength == 10

\* ContentValidator.isValidContent (rag-processors.ts lines 343-345)
IsValidContent(cs) == Len(Trim(cs)) > MinContentLength

\* contents handed to addDocument: empty, whitespace only, "short", 10
\* characters once trimmed, 11 characters
ValidationContents ==
  { "", " \t", "short", " ten chars ", "long enough" }

ValidationInputs ==
  { [content |-> cs, title |-> "Notes", source |-> "manual-input",
     tags |-> Undefined, category |-> "", author |-> ""] :
    cs \in ValidationContents }

\* the session of initialize and addDocument calls with these contents
NextValidate ==
  \/ Initialize("none")
  \/ \E in \in ValidationInputs : AddDocument(in, "none")

SpecValidate == Init /\ [][NextValidate]_vars

\* the document the last addDocument call was about, if it is kept
AddedBy(op) == { i \in 1..Len(documents) : documents[i].id = op.id }

\* C12 (as claimed): addDocument rejects a content whose trimmed length is
\* at most 10 before the document is appended to the collection, indexed
\* or written to disk, and accepts a longer content.
C12_ShortContentRejected ==
  /\ \A i \in 1..Len(documents) :
       documents[i].id \in 1..MaxIds => IsValidContent(documents[i].content)
  /\ (IndexIds(vectorIndex) \cup docFiles) \cap (1..MaxIds)
       \subseteq IdsOf(documents)
  /\ (lastOp.op = "add" /\ isInitialized) =>
       \A i \in AddedBy(lastOp) :
         IsValidContent(documents[i].content) => lastOp.ok

\* ------------------------------------------------------------ C13, C14

\* the state of an instance that initialize() has set up on an empty data
\* directory and on which the documents docs have then been added, every
\* call having succeeded, read at time t
Seeded(docs, t) ==
  /\ documents = docs
  /\ vectorIndex = RebuiltIndex(docs)
  /\ queryEngine = AsQueryEngine(RebuiltIndex(docs))
  /\ isInitialized = TRUE
  /\ autoSave \in BOOLEAN
  /\ nextId = Len(docs) + 1
  /\ now = t
  /\ dataDirExists = TRUE
  /\ metaFile = IF autoSave /\ Len(docs) > 0 THEN FileOf(docs) ELSE NoFile
  /\ docFiles = IdsOf(docs)
  /\ exports = [u \in 0..MaxTime |-> NoFile]
  /\ lastOp = NoOp
  /\ rebuildFailed = FALSE
  /\ initIndexFailed = FALSE
  /\ cleanSinceInit = TRUE
  /\ faults = 0
  /\ calls = NoCalls
  /\ session = NoSession

\* the metadata the listed documents were added with
ListInputs ==
  { [content |-> "notes on career growth", title |-> "Notes",
     source |-> "manual-input", tags |-> m.tags, category |-> m.category,
     author |-> ""] :
    m \in { [tags |-> <<"a">>, category |-> ""],
            [tags |-> <<"b">>, category |-> ""],
            [tags |-> <<"a", "b">>, category |-> ""],
            [tags |-> <<"a">>, category |-> "work"],
            [tags |-> Undefined, category |-> "work"] } }

\* the longest collection listed
MaxListed == 3

\* the collections listed: up to MaxListed documents added one by one
ListStores ==
  UNION { { [i \in 1..n |-> NewDocument(i, ins[i], 0)] :
            ins \in [1..n -> ListInputs] } : n \in 0..MaxListed }

InitList == \E docs \in ListStores : Seeded(docs, 0)

\* the options listDocuments is called with
ListCategories == {"", "general", "work"}
ListTags == {<<>>, <<"a">>, <<"a", "b">>, <<"c">>}
ListLimits == {NoLimit} \cup {Limit(n) : n \in 0..MaxListed}

\* a call of listDocuments (lines 343-365): nothing changes but the
\* record of the call
ListDocumentsCall(category, tags, limit) ==
  /\ lastOp' = [NoOp EXCEPT !.op = "list",
                            !.options = [category |-> category,
                                         tags |-> tags, limit |-> limit],
                            !.listed = ListDocuments(documents, category,
                                                     tags, limit)]
  /\ UNCHANGED <<session, calls,
                 documents, vectorIndex, queryEngine, isInitialized,
                 autoSave, nextId, now, dataDirExists, metaFile, docFiles,
                 exports, rebuildFailed, initIndexFailed, cleanSinceInit,
                 faults>>

NextList ==
  \E category \in ListCategories, tags \in ListTags, limit \in ListLimits :
    ListDocumentsCall(category, tags, limit)

SpecList == InitList /\ [][NextList]_vars

\* the elements of a sequence
Range(seq) == { seq[i] : i \in 1..Len(seq) }

\* doc passes the filters of options
Matches(doc, options) ==
  /\ options.category # "" => doc.metadata.category = options.category
  /\ options.tags # <<>> =>
       Range(doc.metadata.tags) \cap Range(options.tags) # {}

\* the place of the document with this id in docs
PositionOf(docs, id) == CHOOSE i \in 1..Len(docs) : docs[i].id = id

\* the collection holds three documents tagged {a}, {b}, {a,b}
TaggedABAB ==
  /\ Len(documents) = 3
  /\ Range(documents[1].metadata.tags) = {"a"}
  /\ Range(documents[2].metadata.tags) = {"b"}
  /\ Range(documents[3].metadata.tags) = {"a", "b"}

\* C13: without a limit, listDocuments({category, tags}) returns, in
\* insertion order, exactly the documents of the given category (when one
\* is given) that carry at least one of the given tags (when the tag list
\* is not empty); on documents tagged {a}, {b}, {a,b}, tags [a, b] returns
\* all three and tags [a] the first and the third.
C13_ListFilters ==
  (lastOp.op = "list" /\ ~lastOp.options.limit.given) =>
    LET listed == lastOp.listed
        options == lastOp.options
    IN /\ \A k \in 1..Len(listed) :
            /\ listed[k] \in Range(documents)
            /\ Matches(listed[k], options)
       /\ \A i \in 1..Len(documents) :
            Matches(documents[i], options) => documents[i] \in Range(listed)
       /\ \A k, l \in 1..Len(listed) :
            k < l => PositionOf(documents, listed[k].id)
                       < PositionOf(documents, listed[l].id)
       /\ (TaggedABAB /\ options.category = "") =>
            /\ options.tags = <<"a", "b">> => listed = documents
            /\ options.tags = <<"a">> =>
                 listed = <<documents[1], documents[3]>>

\* C13 witness: tags [a] on documents tagged {a}, {b}, {a,b} lists two
C13_Witness ==
  /\ lastOp.op = "list" /\ ~lastOp.options.limit.given
  /\ TaggedABAB
  /\ lastOp.options.tags = <<"a">> /\ lastOp.options.category = ""
  /\ Len(lastOp.listed) = 2

\* the first n elements of seq, all of them when there are fewer
FirstN(seq, n) == SubSeq(seq, 1, IF n < Len(seq) THEN n ELSE Len(seq))

\* C14 (as claimed): with a limit given, 0 included, listDocuments returns
\* the first limit documents of the filtered sequence, so never more than
\* limit; without a limit it returns the whole filtered sequence.
C14_ListLimit ==
  lastOp.op = "list" =>
    LET options == lastOp.options
        filtered == ListDocuments(documents, options.category, options.tags,
                                  NoLimit)
    IN IF options.limit.given
       THEN /\ lastOp.listed = FirstN(filtered, options.limit.n)
            /\ Len(lastOp.listed) <= options.limit.n
       ELSE lastOp.listed = filtered

\* ------------------------------------------------------------------ C15

\* the session of initialize, addDocument and exportData calls with the
\* clock running between the calls
NextExport ==
  \/ Tick
  \/ Initialize("none")
  \/ \E in \in AddInputs : AddDocument(in, "none")
  \/ \E fail \in {"none", "write"} : ExportData(fail)

SpecExport == Init /\ [][NextExport]_vars

\* C15 (as claimed): the path an exportData call returns is the path of no
\* snapshot written before it, so no call overwrites an earlier snapshot.
C15_ExportPathsDistinct ==
  [][ (now' = now /\ lastOp'.op = "export" /\ lastOp'.ok)
      => ~exports[lastOp'.path.t].exists ]_vars

\* ------------------------------------------------------------------ C16

\* C16: query() on an initialized instance whose collection is not empty
\* asks the query engine exactly once; when that call throws, query()
\* throws without asking again; either way the collection, the metadata
\* file, the document files and the index are left as they were.
C16_QueryOnceNoRetry ==
  [][ (lastOp'.op = "query" /\ isInitialized /\ Len(documents) > 0) =>
      ( /\ lastOp'.engineCalls = 1
        /\ ~lastOp'.shortCircuit
        /\ lastOp'.ok <=> lastOp'.fail = "none"
        /\ UNCHANGED <<documents, metaFile, docFiles, vectorIndex,
                       queryEngine, exports>> ) ]_vars

\* C16 witness: the engine call has thrown on an initialized instance that
\* holds documents, and query() has thrown after that one call
C16_Witness ==
  /\ lastOp.op = "query" /\ lastOp.fail = "engine" /\ ~lastOp.ok
  /\ lastOp.engineCalls = 1
  /\ isInitialized /\ Len(documents) > 0

\* ------------------------------------------------------------ C17, C18

\* the last call was an addDocument, deleteDocument or importData that
\* returned (deleteDocument: returned true)
MutationSucceeded ==
  /\ lastOp.op \in {"add", "delete", "import"}
  /\ lastOp.ok
  /\ lastOp.op = "delete" => lastOp.retBool

\* C17: with autoSave on, after an addDocument, deleteDocument or
\* importData that succeeded, the metadata file holds the JSON text of the
\* whole collection, document by document.
C17_AutoSaveFullRewrite ==
  (autoSave /\ MutationSucceeded) =>
    /\ metaFile.exists
    /\ Len(metaFile.docs) = Len(documents)
    /\ \A i \in 1..Len(documents) : metaFile.docs[i] = JSONDoc(documents[i])

\* C17 witness: the second document added to an initialized instance
\* with autoSave on
C17_Witness ==
  /\ autoSave /\ isInitialized /\ lastOp.op = "add" /\ lastOp.ok
  /\ Len(documents) = 2

\* C18 (as claimed): with autoSave off, no addDocument, deleteDocument or
\* importData writes the metadata file.
C18_NoSaveWithoutAutoSave ==
  [][ (~autoSave /\ lastOp'.op \in {"add", "delete", "import"})
      => ( metaFile' = metaFile /\ lastOp'.saves = 0 ) ]_vars

\* ------------------------------------------------------------------ C19

\* 7 * 24 * 60 * 60 * 1000 (line 407), a day and a week in milliseconds
DayMs == 24 * 60 * 60 * 1000
WeekMs == 7 * DayMs

\* String.prototype.startsWith
StartsWith(cs, prefix) ==
  Len(cs) >= Len(prefix) /\ SubSeq(cs, 1, Len(prefix)) = prefix

\* doc.source.startsWith('http') ? 'web' : 'file' (line 421)
SourceType(doc) == IF StartsWith(doc.source, "http") THEN "web" ELSE "file"

\* new Date(doc.metadata.addedDate).getTime(): the Date itself, or the
\* ISO string parsed back
DateValue(date) == date.t

\* a recency test that counts every document
IsRecent_Always(doc, t) == TRUE

\* new Date(doc.metadata.addedDate) > oneWeekAgo (lines 407, 425), called
\* at time t
IsRecent(doc, t) == DateValue(doc.metadata.addedDate) > t - WeekMs

\* doc.metadata.category, the key of the category counters
CategoryOf(doc) == doc.metadata.category

\* the category counters:
\* categories[category] = (categories[category] || 0) + 1
CategoryCounts(docs) ==
  [ k \in { CategoryOf(docs[i]) : i \in 1..Len(docs) } |->
      Cardinality({ i \in 1..Len(docs) : CategoryOf(docs[i]) = k }) ]

\* the source counters: sources[sourceType] = (sources[sourceType] || 0) + 1
SourceCounts(docs) ==
  [ k \in { SourceType(docs[i]) : i \in 1..Len(docs) } |->
      Cardinality({ i \in 1..Len(docs) : SourceType(docs[i]) = k }) ]

\* the tag counters: one per occurrence of the tag on a document
TagCounts(docs) ==
  [ tag \in UNION { Range(docs[i].metadata.tags) : i \in 1..Len(docs) } |->
      Cardinality({ p \in (1..Len(docs)) \X (1..3) :
                      /\ p[2] <= Len(docs[p[1]].metadata.tags)
                      /\ docs[p[1]].metadata.tags[p[2]] = tag }) ]

\* getStats (lines 396-436), called at time t
GetStats(docs, t) ==
  [ totalDocuments |-> Len(docs),
    categories |-> CategoryCounts(docs),
    tags |-> TagCounts(docs),
    sources |-> SourceCounts(docs),
    recentDocuments |->
      Cardinality({ i \in 1..Len(docs) : IsRecent(docs[i], t) }) ]

\* sources of the documents counted: typed in, two URLs, and a file whose
\* name starts with http
StatSources ==
  { "manual-input", "https://example.com/a", "httpd.conf", "htm" }

StatInputs ==
  { [content |-> "notes on career growth", title |-> "Notes",
     source |-> src, tags |-> <<"a">>, category |-> cat, author |-> ""] :
    src \in StatSources, cat \in {"", "work"} }

\* the times at which the clock is read: around the week after time 0,
\* and 8 days after it
ClockValues == {0, 1, WeekMs - 1, WeekMs, WeekMs + 1, 8 * DayMs}

\* the clock moves on to t
AdvanceClock(t) ==
  /\ t > now
  /\ now' = t
  /\ UNCHANGED <<session, calls,
                 documents, vectorIndex, queryEngine, isInitialized,
                 autoSave, nextId, dataDirExists, metaFile, docFiles,
                 exports, lastOp, rebuildFailed, initIndexFailed,
                 cleanSinceInit, faults>>

\* a call of getStats: nothing changes but the record of the call
GetStatsCall ==
  /\ lastOp' = [NoOp EXCEPT !.op = "stats",
                            !.stats = GetStats(documents, now)]
  /\ UNCHANGED <<session, calls,
                 documents, vectorIndex, queryEngine, isInitialized,
                 autoSave, nextId, now, dataDirExists, metaFile, docFiles,
                 exports, rebuildFailed, initIndexFailed, cleanSinceInit,
                 faults>>

\* the session of initialize, addDocument and getStats calls with the
\* clock moving forward between the calls
NextStats ==
  \/ Initialize("none")
  \/ \E in \in StatInputs : AddDocument(in, "none")
  \/ \E t \in ClockValues : AdvanceClock(t)
  \/ GetStatsCall

SpecStats == Init /\ [][NextStats]_vars

\* the sum of the counters of a counter object
RECURSIVE SumOver(_, _)
SumOver(counts, keys) ==
  IF keys = {} THEN 0
  ELSE LET k == CHOOSE x \in keys : TRUE
       IN counts[k] + SumOver(counts, keys \ {k})

Total(counts) == SumOver(counts, DOMAIN counts)

\* C19: getStats() returns totalDocuments equal to the length of the
\* collection, category counters and source counters that each sum to it,
\* web counting the documents whose source starts with http and file the
\* others, and recentDocuments equal to the number of documents added less
\* than 7 days before the call: 1 for one document added at the time of
\* the call, 0 once the clock reads 8 days later.
C19_Stats ==
  [][ (lastOp'.op = "stats" /\ now' = now) =>
      LET stats == lastOp'.stats
          n == Len(documents)
          web == { i \in 1..n : StartsWith(documents[i].source, "http") }
          recent == { i \in 1..n :
                        now - documents[i].metadata.addedDate.t < WeekMs }
      IN /\ stats.totalDocuments = n
         /\ Total(stats.categories) = n
         /\ Total(stats.sources) = n
         /\ DOMAIN stats.sources \subseteq {"web", "file"}
         /\ web # {} => stats.sources["web"] = Cardinality(web)
         /\ web = {} => "web" \notin DOMAIN stats.sources
         /\ stats.recentDocuments = Cardinality(recent)
         /\ (n = 1 /\ documents[1].metadata.addedDate.t = now)
              => stats.recentDocuments = 1
         /\ (n = 1 /\ now = documents[1].metadata.addedDate.t + 8 * DayMs)
              => stats.recentDocuments = 0 ]_vars

\* C19 witness: getStats 8 days after the one document was added
C19_Witness ==
  /\ lastOp.op = "stats" /\ Len(documents) = 1
  /\ now = documents[1].metadata.addedDate.t + 8 * DayMs
  /\ lastOp.stats.recentDocuments = 0 /\ lastOp.stats.totalDocuments = 1

\* ------------------------------------------------------------------ C20
\* addDocument and deleteDocument as they run on the event loop: each
\* action below is the code between two awaits of one call, so the two
\* calls interleave at their await points. this.vectorIndex names an index
\* object; the index insert() was called on is "old" when deleteDocument
\* has not yet assigned the rebuilt index to this.vectorIndex, "new" when
\* it has.

\* rebuildVectorStore has assigned this.vectorIndex (line 243 done)
Assigned(del) == del \in {"persist", "save", "done"}

\* an insert that always reaches the index this.vectorIndex names
InsertLands_Always(target, del) == TRUE

\* the node insert() has added is in the index this.vectorIndex names: it
\* was added to that index, or to the old one and no rebuilt index has
\* taken its place (line 243)
InsertLands(target, del) == target = "new" \/ ~Assigned(del)

\* addDocument up to its first await (lines 148-164): the document is
\* built and pushed, the write of <id>.txt is started
AddCall(in) ==
  /\ calls.add = "idle" /\ isInitialized
  /\ documents' = Append(documents, NewDocument(nextId, in, now))
  /\ nextId' = nextId + 1
  /\ calls' = [calls EXCEPT !.add = "writeFile", !.addId = nextId,
                            !.document = NewDocument(nextId, in, now)]
  /\ UNCHANGED <<session,
                 vectorIndex, queryEngine, isInitialized, autoSave, now,
                 dataDirExists, metaFile, docFiles, exports, lastOp,
                 rebuildFailed, initIndexFailed, cleanSinceInit, faults>>

\* <id>.txt is written (line 191); updateVectorStore builds the llama
\* document and calls insert on the index this.vectorIndex names now
\* (lines 195-211)
AddFileWritten ==
  /\ calls.add = "writeFile"
  /\ docFiles' = docFiles \cup {calls.addId}
  /\ calls' = [calls EXCEPT !.add = "insert",
                            !.target = IF Assigned(calls.del) THEN "new"
                                       ELSE "old"]
  /\ UNCHANGED <<session,
                 documents, vectorIndex, queryEngine, isInitialized,
                 autoSave, nextId, now, dataDirExists, metaFile, exports,
                 lastOp, rebuildFailed, initIndexFailed, cleanSinceInit,
                 faults>>

\* insert has resolved (line 211); this.queryEngine is made from the index
\* this.vectorIndex names now (line 214); persistVectorStore is awaited
AddInserted ==
  LET index == IF InsertLands(calls.target, calls.del)
               THEN Insert(vectorIndex, LlamaDocument(calls.document))
               ELSE vectorIndex
  IN
  /\ calls.add = "insert"
  /\ vectorIndex' = index
  /\ queryEngine' = AsQueryEngine(index)
  /\ calls' = [calls EXCEPT !.add = "persist"]
  /\ UNCHANGED <<session,
                 documents, isInitialized, autoSave, nextId, now,
                 dataDirExists, metaFile, docFiles, exports, lastOp,
                 rebuildFailed, initIndexFailed, cleanSinceInit, faults>>

\* back in addDocument (lines 169-175): with autoSave the collection is
\* serialized as it is now and the write is started, else the id is
\* returned
AddPersisted ==
  /\ calls.add = "persist"
  /\ calls' = IF autoSave
              THEN [calls EXCEPT !.add = "save",
                                 !.addJSON = SaveDocuments(documents)]
              ELSE [calls EXCEPT !.add = "done"]
  /\ UNCHANGED <<session,
                 documents, vectorIndex, queryEngine, isInitialized,
                 autoSave, nextId, now, dataDirExists, metaFile, docFiles,
                 exports, lastOp, rebuildFailed, initIndexFailed,
                 cleanSinceInit, faults>>

\* the metadata write of addDocument has landed (line 119); the id is
\* returned
AddSaved ==
  /\ calls.add = "save"
  /\ metaFile' = calls.addJSON
  /\ calls' = [calls EXCEPT !.add = "done"]
  /\ UNCHANGED <<session,
                 documents, vectorIndex, queryEngine, isInitialized,
                 autoSave, nextId, now, dataDirExists, docFiles, exports,
                 lastOp, rebuildFailed, initIndexFailed, cleanSinceInit,
                 faults>>

\* deleteDocument of a document other than the one being added, up to its
\* first await (lines 369-379): the document is found and spliced out, the
\* unlink is started
DeleteCall(id) ==
  /\ calls.del = "idle" /\ isInitialized
  /\ id # calls.addId
  /\ FindIndex(documents, id) # -1
  /\ documents' = Splice(documents, FindIndex(documents, id))
  /\ calls' = [calls EXCEPT !.del = "unlink", !.delId = id]
  /\ UNCHANGED <<session,
                 vectorIndex, queryEngine, isInitialized, autoSave, nextId,
                 now, dataDirExists, metaFile, docFiles, exports, lastOp,
                 rebuildFailed, initIndexFailed, cleanSinceInit, faults>>

\* the unlink has resolved (line 379); rebuildVectorStore maps the
\* collection as it is now to llama documents and calls fromDocuments
\* (lines 231-243)
DeleteUnlinked ==
  /\ calls.del = "unlink"
  /\ ~MapThrows(documents)
  /\ docFiles' = docFiles \ {calls.delId}
  /\ calls' = [calls EXCEPT !.del = "fromDocuments",
                            !.llamaDocuments = LlamaDocuments(documents)]
  /\ UNCHANGED <<session,
                 documents, vectorIndex, queryEngine, isInitialized,
                 autoSave, nextId, now, dataDirExists, metaFile, exports,
                 lastOp, rebuildFailed, initIndexFailed, cleanSinceInit,
                 faults>>

\* fromDocuments has resolved: the rebuilt index and its engine are
\* assigned (lines 243-244); persistVectorStore is awaited
DeleteRebuilt ==
  /\ calls.del = "fromDocuments"
  /\ vectorIndex' = FromDocuments(calls.llamaDocuments)
  /\ queryEngine' = AsQueryEngine(FromDocuments(calls.llamaDocuments))
  /\ calls' = [calls EXCEPT !.del = "persist"]
  /\ UNCHANGED <<session,
                 documents, isInitialized, autoSave, nextId, now,
                 dataDirExists, metaFile, docFiles, exports, lastOp,
                 rebuildFailed, initIndexFailed, cleanSinceInit, faults>>

\* back in deleteDocument (lines 387-392): with autoSave the collection is
\* serialized as it is now and the write is started, else true is returned
DeletePersisted ==
  /\ calls.del = "persist"
  /\ calls' = IF autoSave
              THEN [calls EXCEPT !.del = "save",
                                 !.delJSON = SaveDocuments(documents)]
              ELSE [calls EXCEPT !.del = "done"]
  /\ UNCHANGED <<session,
                 documents, vectorIndex, queryEngine, isInitialized,
                 autoSave, nextId, now, dataDirExists, metaFile, docFiles,
                 exports, lastOp, rebuildFailed, initIndexFailed,
                 cleanSinceInit, faults>>

\* the metadata write of deleteDocument has landed; true is returned
DeleteSaved ==
  /\ calls.del = "save"
  /\ metaFile' = calls.delJSON
  /\ calls' = [calls EXCEPT !.del = "done"]
  /\ UNCHANGED <<session,
                 documents, vectorIndex, queryEngine, isInitialized,
                 autoSave, nextId, now, dataDirExists, docFiles, exports,
                 lastOp, rebuildFailed, initIndexFailed, cleanSinceInit,
                 faults>>

\* the instance the two calls are made on: initialized, holding one or
\* two documents
InitRace ==
  \E n \in 1..MaxIds, in \in AddInputs :
    Seeded([i \in 1..n |-> NewDocument(i, in, 0)], 0)

\* one addDocument and one deleteDocument, started in either order and
\* resumed in any order
NextRace ==
  \/ \E in \in AddInputs : AddCall(in)
  \/ AddFileWritten
  \/ AddInserted
  \/ AddPersisted
  \/ AddSaved
  \/ \E id \in AllIds : DeleteCall(id)
  \/ DeleteUnlinked
  \/ DeleteRebuilt
  \/ DeletePersisted
  \/ DeleteSaved

SpecRace == InitRace /\ [][NextRace]_vars

\* both calls have returned
BothReturned == calls.add = "done" /\ calls.del = "done"

\* C20: when both calls have returned, the added document is in the
\* collection and the deleted one is gone, and the added document is
\* missing from the index exactly when insert was called on the old index
\* and the rebuild had mapped the collection before the document was
\* pushed; the interleaving in which that happens exists (the witness).
C20_RaceLosesInsert ==
  BothReturned =>
    /\ calls.addId \in IdsOf(documents)
    /\ calls.delId \notin IdsOf(documents) \cup IndexIds(vectorIndex)
    /\ queryEngine = AsQueryEngine(vectorIndex)
    /\ calls.addId \notin IndexIds(vectorIndex)
         <=> ( /\ calls.target = "old"
               /\ calls.addId \notin
                    { calls.llamaDocuments[i].metadata.id :
                        i \in 1..Len(calls.llamaDocuments) } )

\* C20 witness: both calls have returned, the added document is in the
\* collection and in neither the index nor the engine
C20_Witness ==
  /\ BothReturned
  /\ calls.addId \in IdsOf(documents)
  /\ calls.addId \notin IndexIds(vectorIndex)
  /\ calls.addId \notin IndexIds(queryEngine)

\* ------------------------------------------------------------------ C21

\* C21: an addDocument that succeeds on an initialized instance makes one
\* index insert and no rebuild; the index is the one before with one node
\* more, and that node carries the content, id, title, source, category,
\* joined tags, addedDate (ISO string) and author of the new document.
C21_AddInsertsOnce ==
  [][ (lastOp'.op = "add" /\ lastOp'.ok /\ isInitialized) =>
      LET n == Len(vectorIndex.nodes)
          d == documents'[Len(documents')]
          node == vectorIndex'.nodes[n + 1]
      IN /\ lastOp'.inserts = 1 /\ lastOp'.rebuilds = 0
         /\ d.id = lastOp'.id
         /\ Len(vectorIndex'.nodes) = n + 1
         /\ \A i \in 1..n : vectorIndex'.nodes[i] = vectorIndex.nodes[i]
         /\ node.text = d.content
         /\ node.metadata.id = d.id
         /\ node.metadata.title = d.title
         /\ node.metadata.source = d.source
         /\ node.metadata.category = d.metadata.category
         /\ node.metadata.tags = JoinTags(d.metadata.tags)
         /\ node.metadata.addedDate = IsoString(now)
         /\ node.metadata.author = d.metadata.author
         /\ queryEngine' = AsQueryEngine(vectorIndex') ]_vars

\* C21 witness: a document added to an initialized instance whose index
\* already held a node
C21_Witness ==
  /\ lastOp.op = "add" /\ lastOp.ok /\ lastOp.inserts = 1
  /\ isInitialized
  /\ Len(vectorIndex.nodes) = 2
  /\ vectorIndex.nodes[2].metadata.author = "Ana"
  /\ vectorIndex.nodes[2].metadata.tags = "a, b"

\* ------------------------------------------------------------------ C22
\* the interactive sessions: DynamicRAG.startInteractiveCLI (lines
\* 448-505), a while (true) loop that awaits a line and then its handler
\* inside one try block, and TerminalRAG (terminal-rag.ts lines 41-44,
\* 89-168), whose 'line' listener awaits processInput, a switch inside one
\* try block. Both report what a handler throws and go on.

\* the fields and files of the instance: everything but the call record
\* and the session
InstanceState ==
  <<documents, vectorIndex, queryEngine, isInitialized, autoSave, nextId,
    now, dataDirExists, metaFile, docFiles, exports, rebuildFailed,
    initIndexFailed, cleanSinceInit, faults, calls>>

\* a command has been read and its operation has not run yet
Pending == [NoOp EXCEPT !.op = "pending"]

SessionKinds == {"cli", "terminal"}
SessionCommands == {"add", "delete", "query", "list", "exit"}

\* a catch block that lets the error end the session
AfterHandler_Rethrow(ok) == IF ok THEN "prompt" ELSE "rejected"

\* where the session stands once the handler of a command has returned or
\* thrown: the catch block logs the error (dynamic-rag.ts lines 501-503,
\* terminal-rag.ts lines 165-167) and the next line is awaited
AfterHandler(ok) == "prompt"

\* the session begins: initialize() has returned (dynamic-rag.ts line 449,
\* terminal-rag.ts initializeRAG) and the first line is awaited
SessionStart(kind) ==
  /\ session.at = "off"
  /\ lastOp.op = "initialize" /\ lastOp.ok /\ isInitialized
  /\ session' = [session EXCEPT !.kind = kind, !.at = "prompt"]
  /\ UNCHANGED lastOp
  /\ UNCHANGED InstanceState

\* a line is read and split into its command (dynamic-rag.ts lines
\* 465-468, terminal-rag.ts lines 92-96)
SessionRead(command) ==
  /\ session.at = "prompt"
  /\ session' = [session EXCEPT !.at = "handler", !.command = command,
                                !.afterError = session.reported]
  /\ lastOp' = Pending
  /\ UNCHANGED InstanceState

\* the handler of the command runs its operation on the instance
SessionHandler ==
  /\ session.at = "handler" /\ lastOp = Pending
  /\ \/ /\ session.command = "add"
        /\ \E in \in AddInputs, fail \in {"none", "file", "insert", "save"} :
             AddDocument(in, fail)
     \/ /\ session.command = "delete"
        /\ \E id \in AllIds, fail \in {"none", "rebuild", "save"} :
             /\ id \in IdsOf(documents)
             /\ DeleteDocument(id, FALSE, fail)
     \/ /\ session.command = "query"
        /\ \E fail \in {"none", "engine"} : Query(TRUE, fail)
     \/ /\ session.command = "list"
        /\ ListDocumentsCall("", <<>>, Limit(10))

\* the handler has returned or thrown; an error is reported
SessionHandled ==
  /\ session.at = "handler" /\ lastOp # Pending
  /\ session' = [session EXCEPT !.at = AfterHandler(lastOp.ok),
                                !.reported = ~lastOp.ok]
  /\ UNCHANGED lastOp
  /\ UNCHANGED InstanceState

\* exit / quit: the readline interface is closed and the session ends
\* (dynamic-rag.ts lines 493-497, terminal-rag.ts lines 147-152)
SessionExit ==
  /\ session.at = "handler" /\ lastOp = Pending
  /\ session.command = "exit"
  /\ session' = [session EXCEPT !.at = "closed"]
  /\ UNCHANGED lastOp
  /\ UNCHANGED InstanceState

NextSession ==
  \/ \E fail \in {"none", "setup"} :
       session.at = "off" /\ Initialize(fail)
  \/ \E kind \in SessionKinds : SessionStart(kind)
  \/ \E command \in SessionCommands : SessionRead(command)
  \/ SessionHandler
  \/ SessionHandled
  \/ SessionExit

SpecSession == Init /\ [][NextSession]_vars

\* C22: in an interactive session a command whose operation throws does
\* not end the session: the error is reported and the next line is
\* awaited; the session ends only on exit / quit.
C22_SessionSurvivesErrors ==
  /\ [] (session.at \in {"off", "prompt", "handler", "closed"})
  /\ [] (session.at = "closed" => session.command = "exit")
  /\ [][ (session.at = "handler" /\ session'.at # "handler") =>
         \/ session.command = "exit" /\ session'.at = "closed"
         \/ /\ session.command # "exit" /\ session'.at = "prompt"
            /\ session'.reported <=> ~lastOp.ok ]_vars

\* C22 witness: a command has thrown and was reported, and the command
\* read after it has been processed
C22_Witness ==
  /\ session.afterError /\ session.at = "prompt"
  /\ session.command = "add" /\ lastOp.op = "add" /\ lastOp.ok

\* ------------------------------------------------------------------ C23

\* C23: once initialize() has succeeded, isInitialized stays true and the
\* index and the query engine stay set across every later call, failed
\* ones included; a repeated initialize() returns at once: it loads no
\* documents, rebuilds nothing and creates nothing.
C23_StaysInitialized ==
  /\ [] (isInitialized => vectorIndex.exists /\ queryEngine.exists)
  /\ [][ isInitialized =>
         /\ isInitialized'
         /\ lastOp'.op = "initialize" =>
              /\ lastOp'.ok /\ lastOp'.noop /\ lastOp'.rebuilds = 0
              /\ UNCHANGED <<documents, vectorIndex, queryEngine, metaFile,
                             docFiles, dataDirExists>> ]_vars

\* C23 witness: initialize() called again on an initialized instance whose
\* collection is not what the metadata file holds, after a call has failed
C23_Witness ==
  /\ isInitialized /\ lastOp.op = "initialize" /\ lastOp.noop
  /\ Len(documents) = 1 /\ ~metaFile.exists
  /\ ~cleanSinceInit

\* ------------------------------------------------------------------ C24
\* the readline front ends (terminal-rag.ts lines 41-44, part_003 lines
\* 194-197): rl.on('line', async input => { await processInput(...) }).
\* The emitter calls the listener for every line as it arrives and does
\* not wait for the promise of an earlier call.

\* the front-end commands that reach addDocument and deleteDocument
TerminalCommands == {"add", "delete"}

\* a 'line' event: the listener starts processInput for the command,
\* whatever the listeners of earlier lines are awaiting
TerminalLine(command) ==
  /\ command \notin session.lines
  /\ session' = [session EXCEPT !.kind = "terminal", !.at = "prompt",
                                !.lines = session.lines \cup {command}]
  /\ UNCHANGED lastOp
  /\ UNCHANGED InstanceState

\* the handler of a line received calls the operation of the instance
\* (terminal-rag.ts lines 216, 454), which then runs from await to await
NextTerminal ==
  \/ \E command \in TerminalCommands : TerminalLine(command)
  \/ \E in \in AddInputs : "add" \in session.lines /\ AddCall(in)
  \/ AddFileWritten
  \/ AddInserted
  \/ AddPersisted
  \/ AddSaved
  \/ \E id \in AllIds : "delete" \in session.lines /\ DeleteCall(id)
  \/ DeleteUnlinked
  \/ DeleteRebuilt
  \/ DeletePersisted
  \/ DeleteSaved

SpecTerminal == InitRace /\ [][NextTerminal]_vars

\* a call has started and has not returned
InFlight(pc) == pc \notin {"idle", "done"}

\* C24 (as claimed): the readline front ends never have two operations of
\* the instance in flight at once.
C24_OneOperationInFlight ==
  ~(InFlight(calls.add) /\ InFlight(calls.del))

\* ------------------------------------------------------------------ C25
\* C25 (as claimed): an addDocument that throws leaves the collection, the
\* index and the metadata file as they were, and its document is neither
\* listed nor counted.
C25_FailedAddLeavesNoTrace ==
  [][ (lastOp'.op = "add" /\ ~lastOp'.ok /\ lastOp' # lastOp) =>
        /\ UNCHANGED <<documents, vectorIndex, queryEngine, metaFile>>
        /\ lastOp'.id \notin
             IdsOf(ListDocuments(documents', "", <<>>, NoLimit))
        /\ GetStats(documents', now').totalDocuments
             = GetStats(documents, now).totalDocuments ]_vars

\* ------------------------------------------------------------------ C26
\* C26 (as claimed): an importData that throws after the shape check of
\* the snapshot leaves the collection and the metadata file as they were,
\* so a fresh instance on the directory loads the collection of before.
C26_FailedImportLeavesNoTrace ==
  [][ (/\ lastOp'.op = "import" /\ ~lastOp'.ok /\ lastOp' # lastOp
       /\ lastOp'.fail \notin {"read", "format"}) =>
        /\ UNCHANGED <<documents, metaFile>>
        /\ LoadExistingData(metaFile') = LoadExistingData(metaFile) ]_vars

\* ------------------------------------------------------------------ C27
\* C27 (as claimed): with autoSave on, a successful addDocument keeps every
\* document the metadata file held before the call and adds the new one,
\* whatever the order of initialize and addDocument calls.
C27_AddKeepsPersistedDocuments ==
  [][ (lastOp'.op = "add" /\ lastOp'.ok /\ autoSave /\ lastOp' # lastOp) =>
        /\ metaFile'.exists
        /\ IdsOf(LoadExistingData(metaFile))
             \subseteq IdsOf(LoadExistingData(metaFile'))
        /\ lastOp'.id \in IdsOf(LoadExistingData(metaFile')) ]_vars

\* ------------------------------------------------------------------ C28
\* C28 (as claimed): every source a successful query returns carries the
\* id of a document that is in the store when the query returns, failed
\* operations before it included.
C28_SourcesAreStored ==
  [][ (lastOp'.op = "query" /\ lastOp'.ok /\ lastOp' # lastOp) =>
        lastOp'.sources \subseteq IdsOf(documents') ]_vars

\* ------------------------------------------------------------------ C29
\* C29 (as claimed): a query on an instance whose initialize() has not
\* completed and on which no add has run fails with the not-initialized
\* error, does not call the query engine and changes no state.
C29_QueryBeforeInitializeFails ==
  [][ (/\ lastOp'.op = "query" /\ lastOp' # lastOp
       /\ ~isInitialized /\ nextId = 1) =>
        /\ ~lastOp'.ok
        /\ lastOp'.fail = "notInitialized"
        /\ lastOp'.engineCalls = 0
        /\ UNCHANGED InstanceState ]_vars

\* ------------------------------------------------------------------ C30
\* the session of a caller that reads: initialize and addDocument fill the
\* store, then listDocuments, getStats, query and exportData are called
\* in any order while the clock moves
NextRead ==
  \/ Tick
  \/ Initialize("none")
  \/ \E in \in AddInputs : AddDocument(in, "none")
  \/ \E category \in {"", "general"}, limit \in {NoLimit, Limit(1)} :
       ListDocumentsCall(category, <<>>, limit)
  \/ GetStatsCall
  \/ \E includeMetadata \in BOOLEAN, fail \in {"none", "engine"} :
       Query(includeMetadata, fail)
  \/ \E fail \in {"none", "write"} : ExportData(fail)

SpecRead == Init /\ [][NextRead]_vars

\* the operations that only read the store
ReadOperations == {"list", "stats", "query", "export"}

\* C30: listDocuments, getStats, query and exportData leave the collection
\* (contents and order), the metadata file, the per-document files and the
\* index as they were; exportData changes no file but the snapshot at the
\* path it returns, and that snapshot's documents are the serialized
\* collection.
C30_ReadsChangeNothing ==
  [][ (lastOp' # lastOp /\ lastOp'.op \in ReadOperations) =>
        /\ UNCHANGED <<documents, metaFile, docFiles, vectorIndex,
                       queryEngine, isInitialized>>
        /\ lastOp'.op # "export" => UNCHANGED exports
        /\ lastOp'.op = "export" =>
             /\ \A t \in DOMAIN exports :
                  t # lastOp'.path.t => exports'[t] = exports[t]
             /\ lastOp'.ok =>
                  /\ exports'[lastOp'.path.t].exists
                  /\ exports'[lastOp'.path.t].docs = JSONDocs(documents) ]_vars

\* an export of a store of two documents into a directory that already
\* holds an earlier snapshot and the metadata file
C30_Witness ==
  /\ lastOp.op = "export" /\ lastOp.ok
  /\ isInitialized
  /\ Len(documents) = 2
  /\ metaFile.exists
  /\ lastOp.path.t = 1
  /\ exports[0].exists /\ Len(exports[0].docs) = 1
  /\ exports[1].docs = JSONDocs(documents)

====
